---- MODULE Spec2Model ----
(***************************************************************************)
(* Model of the job orchestration of the Docling service:                  *)
(* docling_service/core/queue.py (JobQueue, Job, the worker loop), the    *)
(* routes of docling_service/api/routes.py with their bearer-token check,  *)
(* and calculate_timeout of docling_service/core/config.py.                *)
(*                                                                         *)
(* Granularity.  The service runs on one asyncio event loop, so the code   *)
(* between two suspension points (await that really suspends) is one       *)
(* atomic step.  enqueue and cancel never suspend (the queue is unbounded, *)
(* so Queue.put returns at once).  A worker suspends in                    *)
(* wait_for(queue.get()) and in wait_for(process_document(...)); stop      *)
(* suspends in gather.  wait_for runs queue.get() in a task of its own, so *)
(* an id leaves the queue one loop iteration before the worker that asked  *)
(* for it resumes: that window is the worker position "got".               *)
(***************************************************************************)
EXTENDS Naturals, Sequences, FiniteSets, Bags, TLC

\* ----------------------------------------------------------------- bounds
MaxJobs == 3        \* Enqueue calls modelled
MaxStarts == 2      \* Start calls modelled without a completed Stop between
MaxPages == 24      \* largest page_count given to calculate_timeout
MaxOptionJobs == 2  \* Enqueue calls modelled when the options vary
MaxHttpJobs == 2    \* jobs submitted over HTTP

\* settings.max_concurrent_jobs (ge=1, le=3)
max_concurrent_jobs == 2

\* ----------------------------------------------------------------- values
NULL == "null"
NOW == "now"

QUEUED == "queued"
PROCESSING == "processing"
COMPLETED == "completed"
FAILED == "failed"
CANCELLED == "cancelled"

JobState == {QUEUED, PROCESSING, COMPLETED, FAILED, CANCELLED}
Terminal == {COMPLETED, FAILED, CANCELLED}

\* What the conversion engine does under the worker's deadline: it returns a
\* result with status success, returns a result with status error, is cut off
\* by the deadline, or raises.
EngineOutcome == {"success", "error", "timeout", "raise"}

Ids == 1..MaxJobs

VARIABLES
    jobs,          \* _jobs: the registry, job id -> Job; ids are 1..Len(jobs)
    queue,         \* _queue: the intake queue of job ids
    workers,       \* _workers: bag of worker tasks, each [pc, job]
    running,       \* _running
    stopping,      \* a stop() call is suspended in gather
    ret,           \* what the call made by the last step returned
    hist,          \* history: per job, what has happened to it so far
    uuids,         \* how many trace and correlation ids uuid4 has produced
    auth_token,    \* settings.auth_token
    proc           \* the service process: position of main(), stdout, temp dir

vars == <<jobs, queue, workers, running, stopping, ret, hist, uuids,
          auth_token, proc>>

\* str(uuid.uuid4()): the k-th trace or correlation id produced.  Job ids are
\* uuids too; the model names a job by its position in the registry.
UuidPool ==
    <<"u1", "u2", "u3", "u4", "u5", "u6", "u7", "u8", "u9", "u10", "u11",
      "u12", "u13", "u14", "u15", "u16">>
Uuid(k) == UuidPool[k]

\* An Optional[int]: <<>> is None, <<n>> is the integer n.
None == <<>>
Some(n) == <<n>>

\* `options or {}`: the options of a job submitted without any.
NoOptions == [processing_tier |-> NULL, timeout_seconds |-> None]

\* Settings.timeout_base_seconds and Settings.timeout_per_page_seconds
timeout_base_seconds == 60
timeout_per_page_seconds == 10

\* Settings.processing_tier, at its default.
processing_tier == "standard"

\* calculate_timeout, the table tier_multipliers; 0.5 is <<1, 2>>.
tier_multipliers ==
    [lightweight |-> <<1, 2>>, standard |-> <<1, 1>>, advanced |-> <<2, 1>>]

\* calculate_timeout: `tier or settings.processing_tier`.
effective_tier(tier) == IF tier \in {NULL, ""} THEN processing_tier ELSE tier

\* calculate_timeout: `tier_multipliers.get(effective_tier, 1.0)`.
multiplier(tier) ==
    IF effective_tier(tier) \in DOMAIN tier_multipliers
    THEN tier_multipliers[effective_tier(tier)]
    ELSE <<1, 1>>

\* Mutant of calculate_timeout: the multiplier scales the page term only, as
\* the docstring of the function has it.
calculate_timeout_page_term(page_count, tier) ==
    timeout_base_seconds
        + (page_count * timeout_per_page_seconds * multiplier(tier)[1])
              \div multiplier(tier)[2]

\* config.calculate_timeout: int((base + page_count * per_page) * multiplier);
\* the product is not negative, so int() rounds it down.
calculate_timeout(page_count, tier) ==
    ((timeout_base_seconds + page_count * timeout_per_page_seconds)
        * multiplier(tier)[1]) \div multiplier(tier)[2]

\* _process_job lines 275-278: `options.get("timeout_seconds") or
\* calculate_timeout(page_count=100, tier=options.get("processing_tier"))`;
\* None and 0 are both false.
effective_timeout(options) ==
    IF options.timeout_seconds # None /\ options.timeout_seconds[1] # 0
    THEN options.timeout_seconds[1]
    ELSE calculate_timeout(100, options.processing_tier)

\* _process_job line 316: f"Processing timeout after {timeout_seconds} seconds"
timeout_message(timeout_seconds) ==
    "Processing timeout after " \o ToString(timeout_seconds) \o " seconds"

\* The Job dataclass built by enqueue, the other fields at their defaults.
Job(id, options, trace_id, correlation_id) ==
    [id |-> id, state |-> QUEUED, progress |-> 0, result |-> NULL,
     error |-> NULL, error_type |-> NULL,
     started_at |-> NULL, completed_at |-> NULL,
     options |-> options, trace_id |-> trace_id,
     correlation_id |-> correlation_id]

\* A worker task: where it is suspended and the job id it holds.
\*   idle        in wait_for(queue.get()), nothing dequeued yet
\*   got         queue.get() has returned an id, the worker has not resumed
\*   converting  in wait_for(process_document(...))
\*   done        the task has ended
Worker(pc, job) == [pc |-> pc, job |-> job]

\* What a call returned: ok is the value of cancel, code the status code of
\* the route, value the job ids or job projections returned.  For a request
\* x_trace_id is its X-Trace-Id header, trace_id the trace_id of the response
\* body and header the X-Trace-Id header of the response.
Ret(op, id, ok, code, value, correlation_id) ==
    [op |-> op, id |-> id, ok |-> ok, code |-> code, value |-> value,
     correlation_id |-> correlation_id,
     x_trace_id |-> NULL, trace_id |-> NULL, header |-> NULL]

\* main.py line 227: the readiness line (host and port left out).
ReadyLine == "DOCLING_READY"

\* The service process: pc is where main() is, stdout the lines written to
\* stdout, temp_dir the entries of the temp directory.
Process(pc, stdout, temp_dir) ==
    [pc |-> pc, stdout |-> stdout, temp_dir |-> temp_dir]

\* JobQueue used as a library, without main() (as the tests use it).
Library == Process("library", <<>>, {})

NoRet == Ret("none", 0, FALSE, 0, <<>>, NULL)

\* History of a job: whether it ever was processing, how often the engine was
\* called for it, how many cancel calls returned True for it, the deadline
\* its worker gave the engine, the outcome of the engine call and, for a job
\* of a batch, the number of file paths of the batch request.
NoHist ==
    [ever_processing |-> FALSE, engine_calls |-> 0, cancel_ok |-> 0,
     deadline |-> 0, outcome |-> NULL, batch |-> 0]

JobIds == 1..Len(jobs)

\* JobQueue.size
size == Len(queue)

\* JobQueue.active_count
active_count == Cardinality({i \in JobIds : jobs[i].state = PROCESSING})

\* len(self._workers)
num_workers == BagCardinality(workers)

\* One worker task moves from one position to another.
Move(from, to) == (workers (-) SetToBag({from})) (+) SetToBag({to})

\* Mutant of LoopTop: a worker ends after the job it handled.
LoopTop_ends == Worker("done", 0)

\* Where a worker goes at the top of its loop: `while self._running`.
LoopTop == IF running THEN Worker("idle", 0) ELSE Worker("done", 0)

\* JobQueue.__init__
Init ==
    /\ jobs = <<>>
    /\ queue = <<>>
    /\ workers = EmptyBag
    /\ running = FALSE
    /\ stopping = FALSE
    /\ ret = NoRet
    /\ hist = <<>>
    /\ uuids = 0
    /\ auth_token = NULL
    /\ proc = Library

\* JobQueue.start
Start ==
    /\ ~stopping
    /\ num_workers + max_concurrent_jobs <= MaxStarts * max_concurrent_jobs
    /\ running' = TRUE
    /\ workers' = workers (+)
           [w \in {Worker("idle", 0)} |-> max_concurrent_jobs]
    /\ ret' = NoRet
    /\ UNCHANGED <<jobs, queue, stopping, hist, uuids, auth_token, proc>>

\* Mutant of new_job_id: the id generator repeats the last id.
new_job_id_repeated(registry) ==
    IF Len(registry) = 0 THEN 1 ELSE Len(registry)

\* queue.py line 125: a fresh job id (the next position of the registry).
new_job_id(registry) == Len(registry) + 1

\* Mutant of initial_job: the job is created already claimed.
initial_job_claimed(id, options, trace_id, correlation_id) ==
    [Job(id, options, trace_id, correlation_id)
        EXCEPT !.state = PROCESSING, !.progress = 10]

\* queue.py lines 126-132: the job enqueue registers.
initial_job(id, options, trace_id, correlation_id) ==
    Job(id, options, trace_id, correlation_id)

\* Mutant of trace_or_uuid: enqueue always generates the trace id.
trace_or_uuid_always_fresh(trace_id, k) == Uuid(k)

\* queue.py line 130: `trace_id or str(uuid.uuid4())`, the uuid being the
\* k-th one produced.
trace_or_uuid(trace_id, k) ==
    IF trace_id \in {NULL, ""} THEN Uuid(k) ELSE trace_id

\* How many uuids enqueue draws for a trace id.
uuids_drawn(trace_id) == IF trace_id \in {NULL, ""} THEN 1 ELSE 0

\* JobQueue.enqueue lines 125-134 applied to a registry, a queue and a
\* history: the three after the call.
enqueued(state, options, trace_id, correlation_id) ==
    LET job_id == new_job_id(state.jobs) IN
    [jobs |-> Append(state.jobs,
                     initial_job(job_id, options,
                                 trace_or_uuid(trace_id, state.uuids + 1),
                                 correlation_id)),
     queue |-> Append(state.queue, job_id),
     hist |-> Append(state.hist, NoHist),
     uuids |-> state.uuids + uuids_drawn(trace_id)]

\* The registry, queue, history and uuid count as one value.
Current == [jobs |-> jobs, queue |-> queue, hist |-> hist, uuids |-> uuids]

\* JobQueue.enqueue(file_path, options, trace_id, correlation_id).
EnqueueWith(options, trace_id, correlation_id) ==
    /\ Len(jobs) < MaxJobs
    /\ LET after == enqueued(Current, options, trace_id, correlation_id) IN
        /\ jobs' = after.jobs
        /\ queue' = after.queue
        /\ hist' = after.hist
        /\ uuids' = after.uuids
        /\ ret' = Ret("enqueue", Len(jobs) + 1, TRUE, 200,
                      <<Len(after.jobs)>>, NULL)
    /\ UNCHANGED <<workers, running, stopping, auth_token, proc>>

\* JobQueue.enqueue(file_path): a call with every optional argument left out.
Enqueue == EnqueueWith(NoOptions, NULL, NULL)

\* Mutant of cancellable: cancel refuses only finished jobs.
cancellable_unless_done(job) == job.state \in {QUEUED, PROCESSING}

\* queue.py line 161: only a job still queued can be cancelled.
cancellable(job) == job.state = QUEUED

\* Mutant of cancelled_job: cancel stamps the job but leaves its state.
cancelled_job_state_kept(job) == [job EXCEPT !.completed_at = NOW]

\* queue.py lines 162-163: what cancel writes into the job.
cancelled_job(job) == [job EXCEPT !.state = CANCELLED, !.completed_at = NOW]

\* Mutant of queue_after_cancel: cancel removes the id from the queue.
queue_without(job_id) == SelectSeq(queue, LAMBDA x : x # job_id)

\* The intake queue after cancel: cancel never touches self._queue.
queue_after_cancel(job_id) == queue

\* Mutant of cancel_code: every refused cancel is answered 400.
cancel_code_never_404(job_id, cancelled) == IF cancelled THEN 200 ELSE 400

\* routes.py cancel_job: the status code for the value cancel returned.
cancel_code(job_id, cancelled) ==
    IF cancelled THEN 200
    ELSE IF job_id \notin JobIds THEN 404
    ELSE 400

\* JobQueue.cancel, called by the route cancel_job (which never suspends
\* between the call and the lookup that picks 404 or 400).
Cancel(job_id) ==
    LET found == job_id \in JobIds
        cancelled == found /\ cancellable(jobs[job_id])
    IN  /\ jobs' = IF cancelled
                   THEN [jobs EXCEPT ![job_id] = cancelled_job(jobs[job_id])]
                   ELSE jobs
        /\ queue' = IF cancelled THEN queue_after_cancel(job_id) ELSE queue
        /\ hist' = IF cancelled
                   THEN [hist EXCEPT ![job_id].cancel_ok = @ + 1]
                   ELSE hist
        /\ ret' = Ret("cancel", job_id, cancelled,
                      cancel_code(job_id, cancelled), <<>>, NULL)
        /\ UNCHANGED <<workers, running, stopping, uuids, auth_token, proc>>

\* Job.to_dict: the projection of a job the API returns.
to_dict(job) ==
    [job_id |-> job.id, status |-> job.state, progress |-> job.progress,
     result |-> job.result, error |-> job.error,
     error_type |-> job.error_type, started_at |-> job.started_at,
     completed_at |-> job.completed_at, trace_id |-> job.trace_id]

\* Mutant of get_job: finished jobs are no longer found.
get_job_unfinished(job_id) ==
    IF job_id \in JobIds /\ jobs[job_id].state \notin Terminal
    THEN Some(to_dict(jobs[job_id])) ELSE None

\* JobQueue.get_job: the projection, or None.
get_job(job_id) ==
    IF job_id \in JobIds THEN Some(to_dict(jobs[job_id])) ELSE None

\* JobQueue.list_jobs
list_jobs == [i \in JobIds |-> to_dict(jobs[i])]

\* routes.py get_job_status: get_job, 404 when it returns None.
Get(job_id) ==
    /\ ret' = Ret("get", job_id, get_job(job_id) # None,
                  IF get_job(job_id) # None THEN 200 ELSE 404,
                  get_job(job_id), NULL)
    /\ UNCHANGED <<jobs, queue, workers, running, stopping, hist, uuids,
                   auth_token, proc>>

\* routes.py list_jobs: list_jobs, one entry for each dict it returns.
List ==
    /\ ret' = Ret("list", 0, TRUE, 200, list_jobs, NULL)
    /\ UNCHANGED <<jobs, queue, workers, running, stopping, hist, uuids,
                   auth_token, proc>>

\* Mutant of queue_after_get: get returns the head and leaves it in the queue.
queue_after_get_peek == queue

\* asyncio.Queue.get called at _worker line 227: the head leaves the queue.
queue_after_get == Tail(queue)

\* _worker line 227: the queue.get() task started by wait_for takes the head
\* of the queue for a worker that is waiting for one.
WorkerDequeue ==
    /\ BagIn(Worker("idle", 0), workers)
    /\ queue # <<>>
    /\ workers' = Move(Worker("idle", 0), Worker("got", Head(queue)))
    /\ queue' = queue_after_get
    /\ ret' = NoRet
    /\ UNCHANGED <<jobs, running, stopping, hist, uuids, auth_token, proc>>

\* Mutant of discards: the worker does not look for tombstones.
discards_missing_only(job_id) == job_id \notin JobIds

\* _worker line 232: a dequeued id is dropped when its job is a tombstone.
discards(job_id) == job_id \notin JobIds \/ jobs[job_id].state = CANCELLED

\* _process_job lines 258-280: the claim, up to the call of the engine.
claimed_job(job) ==
    [job EXCEPT !.state = PROCESSING, !.started_at = NOW, !.progress = 20]

\* _worker lines 231-235 and _process_job lines 258-292: the worker resumes
\* with the id it was handed, drops a tombstone or claims the job and calls
\* the engine.
WorkerResume(job_id) ==
    /\ BagIn(Worker("got", job_id), workers)
    /\ IF discards(job_id)
       THEN /\ workers' = Move(Worker("got", job_id), LoopTop)
            /\ UNCHANGED <<jobs, hist>>
       ELSE /\ workers' = Move(Worker("got", job_id),
                               Worker("converting", job_id))
            /\ jobs' = [jobs EXCEPT ![job_id] = claimed_job(jobs[job_id])]
            /\ hist' = [hist EXCEPT
                  ![job_id].ever_processing = TRUE,
                  ![job_id].engine_calls = @ + 1,
                  ![job_id].deadline = effective_timeout(jobs[job_id].options)]
    /\ ret' = NoRet
    /\ UNCHANGED <<queue, running, stopping, uuids, auth_token, proc>>

\* Mutant of finished_job: the result is stored before its status is read.
finished_job_result_first(job, outcome) ==
    LET stored == IF outcome \in {"success", "error"}
                  THEN [job EXCEPT !.result = "result"]
                  ELSE job
        written ==
          IF outcome = "success"
          THEN [stored EXCEPT !.state = COMPLETED]
          ELSE [stored EXCEPT !.state = FAILED, !.error = "engine_error",
                              !.error_type = "processing_error"]
    IN  [written EXCEPT !.completed_at = NOW, !.progress = 100]

\* Mutant of finished_job: the deadline's TimeoutError is caught by the
\* clause for Exception, its message being empty.
finished_job_timeout_as_exception(job, outcome) ==
    LET written ==
          CASE outcome = "success" ->
                 [job EXCEPT !.state = COMPLETED, !.result = "result"]
            [] outcome = "error" ->
                 [job EXCEPT !.state = FAILED, !.error = "engine_error",
                             !.error_type = "processing_error"]
            [] outcome = "timeout" ->
                 [job EXCEPT !.state = FAILED, !.error = "",
                             !.error_type = "processing_error"]
            [] outcome = "raise" ->
                 [job EXCEPT !.state = FAILED, !.error = "exception_message",
                             !.error_type = "processing_error"]
    IN  [written EXCEPT !.completed_at = NOW, !.progress = 100]

\* _process_job lines 294-336: what the worker writes for an engine outcome,
\* followed by the finally block.
finished_job(job, outcome) ==
    LET written ==
          CASE outcome = "success" ->
                 [job EXCEPT !.state = COMPLETED, !.result = "result"]
            [] outcome = "error" ->
                 [job EXCEPT !.state = FAILED, !.error = "engine_error",
                             !.error_type = "processing_error"]
            [] outcome = "timeout" ->
                 [job EXCEPT !.state = FAILED,
                             !.error = timeout_message(
                                           effective_timeout(job.options)),
                             !.error_type = "timeout"]
            [] outcome = "raise" ->
                 [job EXCEPT !.state = FAILED, !.error = "exception_message",
                             !.error_type = "processing_error"]
    IN  [written EXCEPT !.completed_at = NOW, !.progress = 100]

\* Mutant of jobs_after_finish: a sibling that does not succeed fails the
\* siblings of its batch that are still queued.
jobs_after_finish_fails_batch(job_id, outcome) ==
    [i \in JobIds |->
        IF i = job_id THEN finished_job(jobs[i], outcome)
        ELSE IF /\ outcome # "success"
                /\ jobs[i].correlation_id # NULL
                /\ jobs[i].correlation_id = jobs[job_id].correlation_id
                /\ jobs[i].state = QUEUED
        THEN [jobs[i] EXCEPT !.state = FAILED, !.error = "batch_failed",
                             !.error_type = "processing_error"]
        ELSE jobs[i]]

\* _process_job lines 294-336 write to `job`, the one Job object the worker
\* looked up at line 251; no other entry of _jobs is touched.
jobs_after_finish(job_id, outcome) ==
    [jobs EXCEPT ![job_id] = finished_job(jobs[job_id], outcome)]

\* _process_job lines 283-346 and _worker line 223: the engine call ends, the
\* worker records the outcome and goes back to the top of its loop.
WorkerFinish(job_id, outcome) ==
    /\ BagIn(Worker("converting", job_id), workers)
    /\ jobs' = jobs_after_finish(job_id, outcome)
    /\ workers' = Move(Worker("converting", job_id), LoopTop)
    /\ hist' = [hist EXCEPT ![job_id].outcome = outcome]
    /\ ret' = NoRet
    /\ UNCHANGED <<queue, running, stopping, uuids, auth_token, proc>>

\* Mutant of interrupted_job: an interrupted job has its progress reset.
interrupted_job_progress_reset(job) ==
    [job EXCEPT !.completed_at = NOW, !.progress = 0]

\* Mutant of interrupted_job: the cancelled conversion is recorded as a
\* failure.
interrupted_job_failed(job) ==
    [job EXCEPT !.state = FAILED, !.error = "cancelled",
                !.error_type = "processing_error",
                !.completed_at = NOW, !.progress = 100]

\* _process_job lines 334-336 when CancelledError passes through it: the
\* except clauses do not catch it (it is no Exception), the finally block
\* runs, the state is left as it was.
interrupted_job(job) == [job EXCEPT !.completed_at = NOW, !.progress = 100]

\* The jobs whose conversion is in flight.
Converting == {w.job : w \in {x \in BagToSet(workers) : x.pc = "converting"}}

\* JobQueue.stop lines 94-102, up to the suspension in gather.  Every worker
\* is cancelled: one waiting for an id ends (_worker 237-239); one in the
\* engine call ends through the finally block of _process_job; one that was
\* already handed an id keeps it, because wait_for returns the result of its
\* finished queue.get() instead of raising CancelledError.
\* With no workers stop does not suspend and returns at once.
StopBegin ==
    /\ ~stopping
    /\ running' = FALSE
    /\ jobs' = [i \in JobIds |->
                  IF i \in Converting THEN interrupted_job(jobs[i])
                  ELSE jobs[i]]
    /\ LET kept == {w \in BagToSet(workers) : w.pc = "got"}
           keptBag == [w \in kept |-> workers[w]]
           ended == num_workers - BagCardinality(keptBag)
       IN  workers' = IF ended > 0
                      THEN keptBag (+) [w \in {Worker("done", 0)} |-> ended]
                      ELSE keptBag
    /\ stopping' = (workers # EmptyBag)
    /\ ret' = NoRet
    /\ UNCHANGED <<queue, hist, uuids, auth_token, proc>>

\* Mutant of workers_ended: stop does not wait for its workers.
workers_ended_unchecked == TRUE

\* JobQueue.stop line 102: gather returns once every worker task has ended.
workers_ended == \A w \in BagToSet(workers) : w.pc = "done"

\* JobQueue.stop lines 102-105: gather returns once every worker task has
\* ended; the list of workers is cleared.
StopEnd ==
    /\ stopping
    /\ workers_ended
    /\ workers' = EmptyBag
    /\ stopping' = FALSE
    /\ ret' = NoRet
    /\ UNCHANGED <<jobs, queue, running, hist, uuids, auth_token, proc>>

Next ==
    \/ Start
    \/ StopBegin
    \/ StopEnd
    \/ Enqueue
    \/ \E job_id \in Ids : Cancel(job_id)
    \/ WorkerDequeue
    \/ \E job_id \in Ids : WorkerResume(job_id)
    \/ \E job_id \in Ids, outcome \in EngineOutcome :
           WorkerFinish(job_id, outcome)

Spec == Init /\ [][Next]_vars

\* The event loop runs every task that is ready, and every engine call ends
\* (it returns, raises or is cut off by its deadline): a worker that was
\* handed an id resumes, a conversion ends, and a stop whose workers have all
\* ended returns.
FairSpec ==
    /\ Spec
    /\ WF_vars(\E job_id \in Ids : WorkerResume(job_id))
    /\ WF_vars(\E job_id \in Ids, outcome \in EngineOutcome :
                  WorkerFinish(job_id, outcome))
    /\ WF_vars(StopEnd)

\* The orchestrator with the two read operations next to the others.
NextQuery ==
    \/ Next
    \/ \E job_id \in Ids : Get(job_id)
    \/ List

SpecQuery == Init /\ [][NextQuery]_vars

\* The tiers calculate_timeout is given: None, the empty string, the three
\* tiers of the table and a string that is no tier.
Tiers == {NULL, "", "lightweight", "standard", "advanced", "premium"}

\* A call of config.calculate_timeout(page_count, tier); it reads the settings
\* and changes nothing.
CalculateTimeout(page_count, tier) ==
    /\ ret' = Ret("calculate_timeout", page_count, TRUE, 0,
                  <<tier, calculate_timeout(page_count, tier)>>, NULL)
    /\ UNCHANGED <<jobs, queue, workers, running, stopping, hist, uuids,
                   auth_token, proc>>

NextTimeout ==
    \E page_count \in 0..MaxPages, tier \in Tiers :
        CalculateTimeout(page_count, tier)

\* calculate_timeout on its own, over page counts and tiers.
SpecTimeout == Init /\ [][NextTimeout]_vars

\* The options jobs are submitted with: none, a tier, an explicit timeout,
\* an explicit timeout of 0 next to a tier.
OptionChoices ==
    {NoOptions,
     [processing_tier |-> "lightweight", timeout_seconds |-> None],
     [processing_tier |-> NULL, timeout_seconds |-> Some(5)],
     [processing_tier |-> "advanced", timeout_seconds |-> Some(0)]}

\* The orchestrator started once at a time (main.py lifespan), jobs submitted
\* with options.
NextOptions ==
    \/ workers = EmptyBag /\ Start
    \/ StopBegin
    \/ StopEnd
    \/ \E options \in OptionChoices :
           Len(jobs) < MaxOptionJobs /\ EnqueueWith(options, NULL, NULL)
    \/ \E job_id \in Ids : Cancel(job_id)
    \/ WorkerDequeue
    \/ \E job_id \in Ids : WorkerResume(job_id)
    \/ \E job_id \in Ids, outcome \in EngineOutcome :
           WorkerFinish(job_id, outcome)

SpecOptions == Init /\ [][NextOptions]_vars

\* ------------------------------------------------------------ the HTTP API

\* The values of settings.auth_token: unset, empty, a token.
AuthTokens == {NULL, "", "secret"}

\* The bearer credentials of a request: none, the token, another string.
Credentials == {NULL, "secret", "wrong"}

\* Mutant of verify_auth_token: any bearer credential is accepted.
verify_auth_token_any_credential(credentials) ==
    auth_token \in {NULL, ""} \/ credentials # NULL

\* routes.verify_auth_token: TRUE when the dependency returns, FALSE when it
\* raises HTTPException(401).
verify_auth_token(credentials) ==
    IF auth_token \in {NULL, ""} THEN TRUE
    ELSE IF credentials = NULL THEN FALSE
    ELSE credentials = auth_token

\* routes.get_trace_id: `x_trace_id or str(uuid.uuid4())`, the uuid being
\* the k-th one produced.
get_trace_id(x_trace_id, k) ==
    IF x_trace_id \in {NULL, ""} THEN Uuid(k) ELSE x_trace_id

\* The 401 response of a protected endpoint: verify_auth_token raises before
\* the route function and its other dependencies run.
Respond401(endpoint) ==
    /\ ret' = Ret("unauthorized", 0, FALSE, 401, <<endpoint>>, NULL)
    /\ UNCHANGED <<jobs, queue, workers, running, stopping, hist, uuids,
                   auth_token, proc>>

\* routes.health_check: no credentials are asked for.
HealthCheck ==
    /\ ret' = Ret("health", 0, TRUE, 200, <<size, active_count>>, NULL)
    /\ UNCHANGED <<jobs, queue, workers, running, stopping, hist, uuids,
                   auth_token, proc>>

\* main.create_app lines 102-109: the middleware the application installs.
installed_middleware == {"CORSMiddleware"}

\* TraceContextMiddleware.dispatch lines 39 and 52: the X-Trace-Id header the
\* middleware puts on the response, the uuid being the k-th one produced.
dispatch_header(x_trace_id, k) ==
    IF x_trace_id \in {NULL, ""} THEN Uuid(k) ELSE x_trace_id

\* The X-Trace-Id header of a response of the application: no route sets it,
\* so it is there only when the middleware that sets it is installed.
response_header(x_trace_id, k) ==
    IF "TraceContextMiddleware" \in installed_middleware
    THEN dispatch_header(x_trace_id, k)
    ELSE NULL

\* A response with the request's X-Trace-Id header, the trace_id of its body
\* and its own X-Trace-Id header.
Traced(response, x_trace_id, trace_id, header) ==
    [response EXCEPT !.x_trace_id = x_trace_id, !.trace_id = trace_id,
                     !.header = header]

\* models.ProcessingOptions: the fields of the options object of a request.
ProcessingOptionsFields ==
    {"processing_tier", "languages", "force_full_page_ocr", "timeout_seconds"}

\* routes.process_document lines 134-140 (process_batch 189-195): the
\* attributes of request.options the route reads to build the options dict.
OptionsAttributesRead ==
    {"processing_tier", "languages", "force_full_page_ocr",
     "include_page_markers", "timeout_seconds"}

\* routes.process_document lines 132-140: the options dict handed to
\* enqueue.  request_options is None (no options in the body) or Some(o).
\* Without options the dict is {}; with options the route reads the
\* attributes above from the object, and reading one that is no field of the
\* model raises AttributeError: the result is then None.
options_dict(request_options) ==
    IF request_options = None THEN Some(NoOptions)
    ELSE IF OptionsAttributesRead \subseteq ProcessingOptionsFields
         THEN request_options
         ELSE None

\* main.create_app lines 114-122: the handler for uncaught exceptions answers
\* 500 with trace_id None.  The uuids drawn for the failed request are
\* dropped with it and are not counted.
Respond500(endpoint, x_trace_id) ==
    /\ ret' = Traced(Ret("error", 0, FALSE, 500, <<endpoint>>, NULL),
                     x_trace_id, NULL, response_header(x_trace_id, uuids + 1))
    /\ UNCHANGED <<jobs, queue, workers, running, stopping, hist, uuids,
                   auth_token, proc>>

\* routes.process_document: POST /process.
ProcessDocument(credentials, x_trace_id, request_options) ==
    IF ~verify_auth_token(credentials) THEN Respond401("process")
    ELSE IF options_dict(request_options) = None
    THEN Respond500("process", x_trace_id)
    ELSE
      /\ Len(jobs) < MaxHttpJobs
      /\ LET trace_id == get_trace_id(x_trace_id, uuids + 1)
             options == options_dict(request_options)[1]
             drawn == [Current EXCEPT !.uuids = @ + uuids_drawn(x_trace_id)]
             after == enqueued(drawn, options, trace_id, NULL)
         IN  /\ jobs' = after.jobs
             /\ queue' = after.queue
             /\ hist' = after.hist
             /\ uuids' = after.uuids
             /\ ret' = Traced(Ret("process", Len(after.jobs), TRUE, 200,
                                  <<Len(after.jobs)>>, NULL),
                              x_trace_id, trace_id,
                              response_header(x_trace_id, after.uuids + 1))
      /\ UNCHANGED <<workers, running, stopping, auth_token, proc>>

\* Mutant of new_correlation_id: every batch gets the same id.
new_correlation_id_constant(k) == Uuid(1)

\* process_batch: `correlation_id = str(uuid.uuid4())`, the k-th uuid
\* produced.
new_correlation_id(k) == Uuid(k)

\* Mutant of enqueue_all: the loop leaves out the last path.
RECURSIVE enqueue_all_but_last(_, _, _, _, _)
enqueue_all_but_last(state, n, options, trace_id, correlation_id) ==
    IF n <= 1 THEN state
    ELSE enqueued(enqueue_all_but_last(state, n - 1, options, trace_id,
                                       correlation_id),
                  options, trace_id, correlation_id)

\* process_batch, the loop over request.file_paths: one enqueue call for each
\* of the n paths, all with the same options, trace id and correlation id.
RECURSIVE enqueue_all(_, _, _, _, _)
enqueue_all(state, n, options, trace_id, correlation_id) ==
    IF n = 0 THEN state
    ELSE enqueued(enqueue_all(state, n - 1, options, trace_id,
                              correlation_id),
                  options, trace_id, correlation_id)

\* routes.process_batch: POST /process/batch with n file paths.  Neither the
\* route nor enqueue suspends, so the batch is registered in one step.
ProcessBatch(credentials, x_trace_id, n, request_options) ==
    IF ~verify_auth_token(credentials) THEN Respond401("process_batch")
    ELSE IF options_dict(request_options) = None
    THEN Respond500("process_batch", x_trace_id)
    ELSE
      /\ Len(jobs) + n <= MaxHttpJobs
      /\ LET trace_id == get_trace_id(x_trace_id, uuids + 1)
             options == options_dict(request_options)[1]
             traced == uuids + uuids_drawn(x_trace_id)
             correlation_id == new_correlation_id(traced + 1)
             drawn == [Current EXCEPT !.uuids = traced + 1]
             after == enqueue_all(drawn, n, options, trace_id,
                                  correlation_id)
         IN  /\ jobs' = after.jobs
             /\ queue' = after.queue
             /\ hist' = [i \in 1..Len(after.hist) |->
                          IF i \in JobIds THEN after.hist[i]
                          ELSE [after.hist[i] EXCEPT !.batch = n]]
             /\ uuids' = after.uuids
             /\ ret' = Traced(Ret("batch", 0, TRUE, 200,
                                  [k \in 1..n |-> Len(jobs) + k],
                                  correlation_id),
                              x_trace_id, trace_id,
                              response_header(x_trace_id, after.uuids + 1))
      /\ UNCHANGED <<workers, running, stopping, auth_token, proc>>

\* routes.get_job_status: GET /jobs/{job_id}.
GetJobStatus(credentials, job_id) ==
    IF ~verify_auth_token(credentials) THEN Respond401("get_job_status")
    ELSE Get(job_id)

\* routes.list_jobs: GET /jobs.
ListJobs(credentials) ==
    IF ~verify_auth_token(credentials) THEN Respond401("list_jobs")
    ELSE List

\* routes.cancel_job: DELETE /jobs/{job_id}.
CancelJob(credentials, job_id) ==
    IF ~verify_auth_token(credentials) THEN Respond401("cancel_job")
    ELSE Cancel(job_id)

\* main.py lifespan: requests are served between job_queue.start() and
\* job_queue.stop(), so the service starts with its workers waiting; the
\* configured token is any of AuthTokens.
InitHttp ==
    /\ jobs = <<>>
    /\ queue = <<>>
    /\ workers = [w \in {Worker("idle", 0)} |-> max_concurrent_jobs]
    /\ running = TRUE
    /\ stopping = FALSE
    /\ ret = NoRet
    /\ hist = <<>>
    /\ uuids = 0
    /\ auth_token \in AuthTokens
    /\ proc = Process("serving", <<ReadyLine>>, {})

\* The engine outcomes of the jobs submitted over HTTP.
HttpOutcome == {"success", "timeout"}

\* The X-Trace-Id header of a request: none, empty, a trace id.
XTraceIds == {NULL, "", "t1"}

\* The options of a request body: none, or an options object.
RequestOptions == {None} \cup {Some(options) : options \in OptionChoices}

\* Requests without an X-Trace-Id header and without options, batches of one
\* path or more, and the workers.
NextHttp ==
    \/ HealthCheck
    \/ \E credentials \in Credentials :
           ProcessDocument(credentials, NULL, None)
    \/ \E credentials \in Credentials, n \in 1..MaxHttpJobs :
           ProcessBatch(credentials, NULL, n, None)
    \/ \E credentials \in Credentials, job_id \in 1..MaxHttpJobs :
           GetJobStatus(credentials, job_id)
    \/ \E credentials \in Credentials : ListJobs(credentials)
    \/ \E credentials \in Credentials, job_id \in 1..MaxHttpJobs :
           CancelJob(credentials, job_id)
    \/ WorkerDequeue
    \/ \E job_id \in 1..MaxHttpJobs : WorkerResume(job_id)
    \/ \E job_id \in 1..MaxHttpJobs, outcome \in HttpOutcome :
           WorkerFinish(job_id, outcome)

SpecHttp == InitHttp /\ [][NextHttp]_vars

\* The requests of NextHttp, every conversion succeeding: what the routes
\* answer to a credential does not depend on how a conversion ends.
NextAuth ==
    \/ HealthCheck
    \/ \E credentials \in Credentials :
           ProcessDocument(credentials, NULL, None)
    \/ \E credentials \in Credentials, n \in 1..MaxHttpJobs :
           ProcessBatch(credentials, NULL, n, None)
    \/ \E credentials \in Credentials, job_id \in 1..MaxHttpJobs :
           GetJobStatus(credentials, job_id)
    \/ \E credentials \in Credentials : ListJobs(credentials)
    \/ \E credentials \in Credentials, job_id \in 1..MaxHttpJobs :
           CancelJob(credentials, job_id)
    \/ WorkerDequeue
    \/ \E job_id \in 1..MaxHttpJobs : WorkerResume(job_id)
    \/ \E job_id \in 1..MaxHttpJobs : WorkerFinish(job_id, "success")

SpecAuth == InitHttp /\ [][NextAuth]_vars

\* Type correctness of the model.
TypeOK ==
    /\ Len(jobs) <= MaxJobs
    /\ Len(hist) = Len(jobs)
    /\ \A i \in JobIds :
          /\ jobs[i].id = i
          /\ jobs[i].state \in JobState
          /\ jobs[i].progress \in {0, 20, 100}
    /\ \A w \in BagToSet(workers) :
          w.pc \in {"idle", "got", "converting", "done"}
    /\ running \in BOOLEAN
    /\ stopping \in BOOLEAN

\* The service with a token configured, as InitHttp has it.
InitRequests == InitHttp /\ auth_token = "secret"

\* Submissions that carry the token, with and without an X-Trace-Id header
\* and an options object; enqueue called with and without a trace id; the
\* workers, every conversion succeeding.
NextRequests ==
    \/ \E x_trace_id \in XTraceIds, request_options \in RequestOptions :
           ProcessDocument("secret", x_trace_id, request_options)
    \/ \E x_trace_id \in XTraceIds, n \in 1..MaxHttpJobs,
          request_options \in RequestOptions :
           ProcessBatch("secret", x_trace_id, n, request_options)
    \/ \E trace_id \in XTraceIds :
           Len(jobs) < MaxHttpJobs /\ EnqueueWith(NoOptions, trace_id, NULL)
    \/ \E job_id \in 1..MaxHttpJobs : Cancel(job_id)
    \/ WorkerDequeue
    \/ \E job_id \in 1..MaxHttpJobs : WorkerResume(job_id)
    \/ \E job_id \in 1..MaxHttpJobs : WorkerFinish(job_id, "success")

SpecRequests == InitRequests /\ [][NextRequests]_vars

\* ------------------------------------------------------------ batches

\* Jobs enqueued when correlation ids are given.
MaxBatchJobs == 3

\* The correlation ids given to enqueue.
CorrelationIds == {"c1", "c2"}

\* The started service; enqueue called with a correlation id, as
\* process_batch and the batch tests call it; cancel; the workers with every
\* engine outcome.
NextBatch ==
    \/ \E correlation_id \in CorrelationIds :
           Len(jobs) < MaxBatchJobs
               /\ EnqueueWith(NoOptions, NULL, correlation_id)
    \/ \E job_id \in 1..MaxBatchJobs : Cancel(job_id)
    \/ WorkerDequeue
    \/ \E job_id \in 1..MaxBatchJobs : WorkerResume(job_id)
    \/ \E job_id \in 1..MaxBatchJobs, outcome \in EngineOutcome :
           WorkerFinish(job_id, outcome)

SpecBatch == InitRequests /\ [][NextBatch]_vars

\* ------------------------------------------------- the service process

\* Jobs submitted while the process model serves.
MaxMainJobs == 1

\* tempfiles.py line 21.
ORPHAN_AGE_SECONDS == 3600

\* An entry of the temp directory: its name as <<prefix, rest>>, whether it is
\* a directory, and its age in seconds when the service starts.
Entry(name, is_dir, age) == [name |-> name, is_dir |-> is_dir, age |-> age]

\* tempfiles.py lines 107-119: what the janitor deletes, a directory whose
\* name starts with "job_" and whose age exceeds the threshold.
orphaned(item) ==
    /\ item.is_dir
    /\ item.name[1] = "job_"
    /\ item.age > ORPHAN_AGE_SECONDS

\* What the temp directory may hold when the service starts.
TempEntries ==
    { Entry(<<"job_", "a">>, TRUE, ORPHAN_AGE_SECONDS + 1),
      Entry(<<"job_", "b">>, TRUE, ORPHAN_AGE_SECONDS),
      Entry(<<"tmp_", "c">>, TRUE, ORPHAN_AGE_SECONDS + 1),
      Entry(<<"job_", "d">>, FALSE, ORPHAN_AGE_SECONDS + 1) }

\* The position of main() moves, nothing else does.
Goto(pc) ==
    /\ proc' = [proc EXCEPT !.pc = pc]
    /\ UNCHANGED <<jobs, queue, workers, running, stopping, ret, hist, uuids,
                   auth_token>>

\* main() entered (main.py 217): the module-level job_queue exists, nothing
\* has been written to stdout, the temp directory is as the last run left it.
InitMain ==
    /\ jobs = <<>>
    /\ queue = <<>>
    /\ workers = EmptyBag
    /\ running = FALSE
    /\ stopping = FALSE
    /\ ret = NoRet
    /\ hist = <<>>
    /\ uuids = 0
    /\ auth_token = "secret"
    /\ \E temp_dir \in SUBSET TempEntries : proc = Process("main", <<>>, temp_dir)

\* main.py 219-227: arguments, settings, signal handlers, create_app, then
\* the readiness line is printed; uvicorn.run (line 230) comes after.
MainPrintReady ==
    /\ proc.pc = "main"
    /\ proc' = [proc EXCEPT !.pc = "printed",
                            !.stdout = Append(proc.stdout, ReadyLine)]
    /\ UNCHANGED <<jobs, queue, workers, running, stopping, ret, hist, uuids,
                   auth_token>>

\* main.py 65-81, run by uvicorn.run: the startup half of lifespan, which
\* logs and starts the job queue.
LifespanStartup ==
    /\ proc.pc = "printed"
    /\ ~running
    /\ Start

\* main.py 230: uvicorn.run binds the socket after the lifespan startup and
\* serves.
ServerBound ==
    /\ proc.pc = "printed"
    /\ running
    /\ Goto("serving")

\* main.py 230: uvicorn.run cannot bind the socket (address in use); it
\* runs the lifespan shutdown and exits with status 1.
BindFails ==
    /\ proc.pc = "printed"
    /\ running
    /\ Goto("failing")

\* A submission while the server serves.
ServeEnqueue ==
    /\ proc.pc = "serving"
    /\ Len(jobs) < MaxMainJobs
    /\ Enqueue

\* The worker tasks run as long as the event loop does.
ServeWorker ==
    /\ proc.pc \in {"serving", "stopping", "failing"}
    /\ \/ WorkerDequeue
       \/ \E job_id \in 1..MaxMainJobs : WorkerResume(job_id)
       \/ \E job_id \in 1..MaxMainJobs, outcome \in HttpOutcome :
              WorkerFinish(job_id, outcome)

\* SIGINT or SIGTERM while serving: the server shuts down.
ShutdownSignal ==
    /\ proc.pc = "serving"
    /\ Goto("stopping")

\* main.py 83-88: the shutdown half of lifespan calls stop() on the job
\* queue, which cancels the workers ...
LifespanShutdown ==
    /\ proc.pc \in {"stopping", "failing"}
    /\ running
    /\ StopBegin

\* ... and returns when they have ended.
LifespanStopped ==
    /\ proc.pc \in {"stopping", "failing"}
    /\ StopEnd

\* stop() has returned and the process exits, with status 0 after serving and
\* 1 after a failed startup.
Exit ==
    /\ proc.pc \in {"stopping", "failing"}
    /\ ~running
    /\ ~stopping
    /\ Goto(IF proc.pc = "stopping" THEN "exit0" ELSE "exit1")

NextMain ==
    \/ MainPrintReady
    \/ LifespanStartup
    \/ ServerBound
    \/ BindFails
    \/ ServeEnqueue
    \/ ServeWorker
    \/ ShutdownSignal
    \/ LifespanShutdown
    \/ LifespanStopped
    \/ Exit

SpecMain == InitMain /\ [][NextMain]_vars

\* --------------------------------------------- started and never stopped

\* Jobs enqueued while the orchestrator runs without a Stop.
MaxRunJobs == 3

\* The orchestrator after Start, no Stop following: enqueue, cancel and the
\* workers.
NextRun ==
    \/ Len(jobs) < MaxRunJobs /\ Enqueue
    \/ \E job_id \in 1..MaxRunJobs : Cancel(job_id)
    \/ WorkerDequeue
    \/ \E job_id \in 1..MaxRunJobs : WorkerResume(job_id)
    \/ \E job_id \in 1..MaxRunJobs, outcome \in HttpOutcome :
           WorkerFinish(job_id, outcome)

\* The event loop runs every task that is ready, so a worker whose
\* queue.get() can return is resumed and a worker that was handed an id goes
\* on; every engine call returns, raises or meets its deadline.
FairRun ==
    /\ InitRequests
    /\ [][NextRun]_vars
    /\ WF_vars(WorkerDequeue)
    /\ WF_vars(\E job_id \in 1..MaxRunJobs : WorkerResume(job_id))
    /\ WF_vars(\E job_id \in 1..MaxRunJobs, outcome \in HttpOutcome :
                  WorkerFinish(job_id, outcome))

\* ------------------------------------------------- stopped and restarted

\* Jobs enqueued while the orchestrator is not running.
MaxRestartJobs == 3

\* Jobs are enqueued only while the orchestrator is not running; it is
\* started when it has no workers, stopped and started again; every
\* conversion succeeds.
NextRestart ==
    \/ workers = EmptyBag /\ Start
    \/ StopBegin
    \/ StopEnd
    \/ ~running /\ Len(jobs) < MaxRestartJobs /\ Enqueue
    \/ WorkerDequeue
    \/ \E job_id \in 1..MaxRestartJobs : WorkerResume(job_id)
    \/ \E job_id \in 1..MaxRestartJobs : WorkerFinish(job_id, "success")

SpecRestart == Init /\ [][NextRestart]_vars

\* ------------------------------------------------------- the janitor

\* Entries of the temp directory when the janitor runs.
MaxEntries == 4

\* What the temp directory may hold: two job directories past the threshold,
\* one exactly at it, a directory whose name starts with job_ without being
\* job_<uuid>, a file with a job name, a directory with another name.
JanitorEntries ==
    { Entry(<<"job_", Uuid(1)>>, TRUE, ORPHAN_AGE_SECONDS + 1),
      Entry(<<"job_", Uuid(2)>>, TRUE, ORPHAN_AGE_SECONDS + 1),
      Entry(<<"job_", Uuid(3)>>, TRUE, ORPHAN_AGE_SECONDS),
      Entry(<<"job_", "notes">>, TRUE, ORPHAN_AGE_SECONDS + 1),
      Entry(<<"job_", Uuid(4)>>, FALSE, ORPHAN_AGE_SECONDS + 1),
      Entry(<<"tmp_", Uuid(5)>>, TRUE, ORPHAN_AGE_SECONDS + 1) }

\* temp_dir.iterdir(): the entries in the order the file system yields them.
RECURSIVE Listings(_)
Listings(dir) ==
    IF dir = {} THEN {<<>>}
    ELSE UNION {{<<item>> \o rest : rest \in Listings(dir \ {item})} :
                   item \in dir}

\* The file system operation that raises during one run, if any: is_dir()
\* (line 107), stat() (line 116) or rmtree() (line 125) of one entry.
NoFault == [items |-> {}, at |-> "none"]

\* The faults one run may meet in a directory.
Faults(dir) ==
    {NoFault} \cup {[items |-> {item}, at |-> at] :
                       item \in dir, at \in {"is_dir", "stat", "rmtree"}}

\* cleanup_orphaned_temp_files lines 105-139, the loop over the listing.  An
\* exception of is_dir() is outside the inner try: the outer handler (line
\* 135) catches it and the loop is left.  An exception of stat() or rmtree()
\* is caught by the inner handler (line 128) and the loop goes on.
RECURSIVE scan(_, _, _)
scan(items, fault, state) ==
    IF items = <<>> THEN state
    ELSE LET item == Head(items)
             raises(at) == item \in fault.items /\ fault.at = at
         IN  IF raises("is_dir") THEN state
             ELSE IF ~item.is_dir THEN scan(Tail(items), fault, state)
             ELSE IF item.name[1] # "job_"
             THEN scan(Tail(items), fault, state)
             ELSE IF raises("stat") THEN scan(Tail(items), fault, state)
             ELSE IF ~(item.age > ORPHAN_AGE_SECONDS)
             THEN scan(Tail(items), fault, state)
             ELSE IF raises("rmtree") THEN scan(Tail(items), fault, state)
             ELSE scan(Tail(items), fault,
                       [temp_dir |-> state.temp_dir \ {item},
                        cleaned_count |-> state.cleaned_count + 1])

\* What a run of the janitor returned, with the listing it was given and the
\* operation that raised.
Cleaned(listing, fault, cleaned_count) ==
    [op |-> "cleanup", id |-> 0, ok |-> TRUE, code |-> 0,
     value |-> <<cleaned_count>>, correlation_id |-> NULL,
     x_trace_id |-> NULL, trace_id |-> NULL, header |-> NULL,
     listing |-> listing, fault |-> fault]

\* tempfiles.cleanup_orphaned_temp_files (lines 80-147) with the default
\* max_age_seconds: the directory exists (get_temp_dir has made it), the scan
\* runs and cleaned_count is returned.
CleanupOrphanedTempFiles(listing, fault) ==
    /\ proc.pc = "janitor"
    /\ LET after == scan(listing, fault,
                         [temp_dir |-> proc.temp_dir, cleaned_count |-> 0])
       IN  /\ proc' = [proc EXCEPT !.temp_dir = after.temp_dir]
           /\ ret' = Cleaned(listing, fault, after.cleaned_count)
    /\ UNCHANGED <<jobs, queue, workers, running, stopping, hist, uuids,
                   auth_token>>

\* The janitor called on a temp directory of at most MaxEntries entries.
InitJanitor ==
    /\ jobs = <<>>
    /\ queue = <<>>
    /\ workers = EmptyBag
    /\ running = FALSE
    /\ stopping = FALSE
    /\ ret = NoRet
    /\ hist = <<>>
    /\ uuids = 0
    /\ auth_token = NULL
    /\ \E temp_dir \in SUBSET JanitorEntries :
          /\ Cardinality(temp_dir) <= MaxEntries
          /\ proc = Process("janitor", <<>>, temp_dir)

NextJanitor ==
    \E listing \in Listings(proc.temp_dir), fault \in Faults(proc.temp_dir) :
        CleanupOrphanedTempFiles(listing, fault)

SpecJanitor == InitJanitor /\ [][NextJanitor]_vars

\* ------------------------------------------------------------------ claims

\* The ids in the intake queue.
Queued == {queue[k] : k \in 1..Len(queue)}

\* The ids held by worker tasks.
Held == {w.job : w \in {x \in BagToSet(workers) : x.pc \in {"got", "converting"}}}

\* The step just taken is the call Cancel(job_id).  Every other action
\* overwrites ret, so ret' names a cancel call only after that call.
CalledCancel(job_id) == ret'.op = "cancel" /\ ret'.id = job_id

\* The edges of the job state machine.
Edges ==
    {<<QUEUED, PROCESSING>>, <<QUEUED, CANCELLED>>,
     <<PROCESSING, COMPLETED>>, <<PROCESSING, FAILED>>}

\* C1: every change of a job's state is along one of the four edges
\* queued->processing, queued->cancelled, processing->completed,
\* processing->failed; so a completed, failed or cancelled job never changes
\* state again.
C1_TransitionsFollowEdges ==
    [][\A i \in JobIds :
          jobs'[i].state # jobs[i].state
              => <<jobs[i].state, jobs'[i].state>> \in Edges]_vars

\* C1 witness: all four edges have been taken: one job completed, one failed
\* and one cancelled.
C1_Witness ==
    \E a, b, c \in JobIds :
        /\ jobs[a].state = COMPLETED
        /\ jobs[b].state = FAILED
        /\ jobs[c].state = CANCELLED

\* C2 (as claimed): the number of jobs in state processing never exceeds
\* max_concurrent_jobs.
C2_ConcurrencyBound == active_count <= max_concurrent_jobs

\* C3 (as claimed): every completed, failed or cancelled job has completed_at
\* set and progress = 100.
C3_TerminalIsDone ==
    \A i \in JobIds :
        jobs[i].state \in Terminal
            => jobs[i].completed_at # NULL /\ jobs[i].progress = 100

\* C4 (as claimed): started_at is set iff the job has ever been processing,
\* and completed_at is set iff the job's state is terminal.
C4_Timestamps ==
    \A i \in JobIds :
        /\ jobs[i].started_at # NULL <=> hist[i].ever_processing
        /\ jobs[i].completed_at # NULL <=> jobs[i].state \in Terminal

\* C5: result is set iff the job is completed; error is set iff it is failed;
\* error_type is set iff it is failed and is then timeout or processing_error.
C5_ResultAndError ==
    \A i \in JobIds :
        /\ jobs[i].result # NULL <=> jobs[i].state = COMPLETED
        /\ jobs[i].error # NULL <=> jobs[i].state = FAILED
        /\ jobs[i].error_type # NULL <=> jobs[i].state = FAILED
        /\ jobs[i].error_type \in {NULL, "timeout", "processing_error"}

\* C5 witness: a completed job next to a job failed by the deadline and a job
\* failed by the engine.
C5_Witness ==
    \E a, b, c \in JobIds :
        /\ jobs[a].result # NULL
        /\ jobs[b].error_type = "timeout"
        /\ jobs[c].error_type = "processing_error"

\* C6 (as claimed): Cancel of a queued job returns Cancelled and in the same
\* step sets its state to cancelled, sets completed_at and sets progress to
\* 100.
C6_CancelQueued ==
    [][\A i \in JobIds :
          CalledCancel(i) /\ jobs[i].state = QUEUED
              => /\ ret'.ok
                 /\ jobs'[i].state = CANCELLED
                 /\ jobs'[i].completed_at # NULL
                 /\ jobs'[i].progress = 100]_vars

\* C7: Cancel of a job that is processing, completed, failed or cancelled
\* returns NotCancellable (400) and changes nothing: not the job, not any
\* other job, not the queue, not the worker converting it; so what follows
\* is what would have followed without the call.
C7_CancelNotQueued ==
    [][\A i \in JobIds :
          CalledCancel(i) /\ jobs[i].state # QUEUED
              => /\ ~ret'.ok
                 /\ ret'.code = 400
                 /\ UNCHANGED <<jobs, queue, workers, running, stopping,
                                hist>>]_vars

\* C7 witness: Cancel was refused for a job whose conversion is in flight.
C7_Witness ==
    /\ ret.op = "cancel"
    /\ ~ret.ok
    /\ ret.id \in JobIds
    /\ jobs[ret.id].state = PROCESSING
    /\ BagIn(Worker("converting", ret.id), workers)

\* C8: for each job at most one Cancel returns Cancelled, and once one has,
\* every later Cancel of that job returns NotCancellable and changes nothing.
C8_CancelIdempotent ==
    /\ [](\A i \in JobIds : hist[i].cancel_ok <= 1)
    /\ [][\A i \in JobIds :
             CalledCancel(i) /\ hist[i].cancel_ok >= 1
                 => /\ ~ret'.ok
                    /\ ret'.code = 400
                    /\ UNCHANGED <<jobs, queue, workers, hist>>]_vars

\* C8 witness: a Cancel was refused for a job an earlier Cancel cancelled.
C8_Witness ==
    /\ ret.op = "cancel"
    /\ ~ret.ok
    /\ ret.id \in JobIds
    /\ hist[ret.id].cancel_ok = 1

\* C9: Cancel and the worker never both win a job.  If a Cancel returned
\* Cancelled the job is cancelled, never entered processing and the engine was
\* never called for it; if a worker claimed it no Cancel returned Cancelled;
\* and a worker converting a job holds a job in state processing.
C9_CancelOrClaim ==
    /\ \A i \in JobIds :
          /\ hist[i].cancel_ok > 0
                => /\ jobs[i].state = CANCELLED
                   /\ ~hist[i].ever_processing
                   /\ hist[i].engine_calls = 0
          /\ jobs[i].state = CANCELLED => hist[i].engine_calls = 0
          /\ hist[i].ever_processing => hist[i].cancel_ok = 0
    /\ \A w \in BagToSet(workers) :
          w.pc = "converting" => jobs[w.job].state = PROCESSING

\* C9 witness: both outcomes side by side: one job was cancelled and its id
\* was then dequeued and dropped, another was claimed first and its Cancel
\* was refused.
C9_Witness ==
    /\ \E i \in JobIds :
          /\ jobs[i].state = CANCELLED
          /\ i \notin Queued
          /\ i \notin Held
    /\ ret.op = "cancel"
    /\ ~ret.ok
    /\ ret.id \in JobIds
    /\ hist[ret.id].ever_processing

\* C10: Cancel leaves the intake queue and every other job as they were, so
\* Size() is the same before and after it and the cancelled id stays in the
\* queue; an id leaves the queue only from its head, taken by a worker.
C10_CancelKeepsQueue ==
    [][/\ \A i \in Ids :
             CalledCancel(i)
                 => /\ queue' = queue
                    /\ Len(jobs') = Len(jobs)
                    /\ \A j \in JobIds \ {i} : jobs'[j] = jobs[j]
       /\ queue' # queue
             => \/ /\ Len(jobs') = Len(jobs) + 1
                   /\ queue' = Append(queue, Len(jobs'))
                \/ /\ queue # <<>>
                   /\ queue' = Tail(queue)
                   /\ BagIn(Worker("got", Head(queue)), workers')]_vars

\* C10 witness: a job was just cancelled and its id is still counted by
\* Size(), behind another id.
C10_Witness ==
    /\ ret.op = "cancel"
    /\ ret.ok
    /\ ret.id \in Queued
    /\ size >= 2

\* The step just taken is a call of enqueue.
CalledEnqueue == ret'.op = "enqueue"

\* C11: Enqueue succeeds in every state (running or stopped, any queue
\* length; the model stops only at MaxJobs jobs): it registers exactly one
\* new job under a fresh id, queued, progress 0, no result, no error,
\* started_at and completed_at unset, appends the id to the tail of the queue
\* (Size grows by 1) and changes no existing job.
C11_EnqueueAddsOneJob ==
    /\ [](Len(jobs) < MaxJobs => ENABLED Enqueue)
    /\ [][CalledEnqueue =>
            /\ ret'.id \notin JobIds
            /\ Len(jobs') = Len(jobs) + 1
            /\ jobs'[ret'.id].id = ret'.id
            /\ jobs'[ret'.id].state = QUEUED
            /\ jobs'[ret'.id].progress = 0
            /\ jobs'[ret'.id].result = NULL
            /\ jobs'[ret'.id].error = NULL
            /\ jobs'[ret'.id].started_at = NULL
            /\ jobs'[ret'.id].completed_at = NULL
            /\ queue' = Append(queue, ret'.id)
            /\ Len(queue') = size + 1
            /\ \A i \in JobIds : jobs'[i] = jobs[i]]_vars

\* C11 witness: a job was just enqueued while the orchestrator was stopped,
\* behind other ids in the queue, with a job left in processing.
C11_Witness ==
    /\ ret.op = "enqueue"
    /\ ~running
    /\ size >= 2
    /\ \E i \in JobIds : jobs[i].state = PROCESSING

\* C12: the ids of the registered jobs are pairwise distinct, no step removes
\* a job from the registry and no step changes a job's id.
C12_RegistryGrows ==
    /\ [](\A i, j \in JobIds : i # j => jobs[i].id # jobs[j].id)
    /\ [][/\ Len(jobs') >= Len(jobs)
          /\ \A i \in JobIds : jobs'[i].id = jobs[i].id]_vars

\* C12 witness: after a stop the registry still holds three jobs, among them
\* a finished, a cancelled and an interrupted one.
C12_Witness ==
    /\ Len(jobs) = 3
    /\ ~running
    /\ ~stopping
    /\ \E a, b, c \in JobIds :
          /\ jobs[a].state \in {COMPLETED, FAILED}
          /\ jobs[b].state = CANCELLED
          /\ jobs[c].state = PROCESSING

\* C13: Get(id) returns the current projection of the job for every id
\* Enqueue has returned and NotFound (404) for every other id; List returns
\* exactly one entry per registered job, whatever its state, showing its
\* current state.
C13_GetAndList ==
    /\ ret.op = "get" /\ ret.id \in JobIds
          => /\ ret.code = 200
             /\ Len(ret.value) = 1
             /\ ret.value[1].job_id = ret.id
             /\ ret.value[1].status = jobs[ret.id].state
             /\ ret.value[1].progress = jobs[ret.id].progress
             /\ ret.value[1].result = jobs[ret.id].result
             /\ ret.value[1].error = jobs[ret.id].error
    /\ ret.op = "get" /\ ret.id \notin JobIds
          => ret.code = 404 /\ ret.value = <<>>
    /\ ret.op = "list"
          => /\ Len(ret.value) = Len(jobs)
             /\ \A i \in JobIds :
                   /\ ret.value[i].job_id = i
                   /\ ret.value[i].status = jobs[i].state

\* C13 witness: Get has just found a finished job while an id never enqueued
\* exists.
C13_Witness ==
    /\ ret.op = "get"
    /\ ret.code = 200
    /\ ret.value[1].status \in Terminal
    /\ Len(jobs) < MaxJobs

\* The uuids produced so far.
Produced == {Uuid(k) : k \in 1..uuids}

\* C14: the jobs created by one batch submission all carry the correlation id
\* the submission returns, which no earlier job carries and which was never
\* produced before; a job created by a single submission has no correlation
\* id; jobs are created by submissions only, and no step changes the
\* correlation id of a job.
C14_CorrelationIds ==
    [][/\ ret'.op = "batch"
             => /\ ret'.correlation_id # NULL
                /\ ret'.correlation_id \notin Produced
                /\ ret'.value # <<>>
                /\ Len(jobs') = Len(jobs) + Len(ret'.value)
                /\ \A k \in 1..Len(ret'.value) :
                      /\ ret'.value[k] = Len(jobs) + k
                      /\ jobs'[ret'.value[k]].correlation_id
                            = ret'.correlation_id
                /\ \A i \in JobIds :
                      jobs[i].correlation_id # ret'.correlation_id
       /\ ret'.op = "process"
             => /\ Len(jobs') = Len(jobs) + 1
                /\ ret'.id = Len(jobs')
                /\ jobs'[ret'.id].correlation_id = NULL
       /\ Len(jobs') # Len(jobs) => ret'.op \in {"batch", "process"}
       /\ \A i \in JobIds :
             jobs'[i].correlation_id = jobs[i].correlation_id]_vars

\* C14 witness: a batch of two has just been submitted and both siblings
\* carry its correlation id.
C14_Witness ==
    /\ ret.op = "batch"
    /\ Len(ret.value) = 2
    /\ ret.correlation_id # NULL
    /\ \A k \in 1..2 : jobs[ret.value[k]].correlation_id = ret.correlation_id

\* C15 (as claimed): jobs enter processing in the order they were enqueued:
\* when a job enters processing, no job enqueued after it has entered
\* processing before.
C15_FifoStart ==
    [][\A a \in JobIds :
          jobs[a].state = QUEUED /\ jobs'[a].state = PROCESSING
              => \A b \in JobIds : b > a => ~hist[b].ever_processing]_vars

\* C16: the worker maps each engine outcome to one terminal state: success
\* to completed with the result and no error; an error result to failed,
\* processing_error, the engine's error text; the deadline to failed, timeout,
\* "Processing timeout after N seconds" with N the deadline the worker gave
\* the engine; an exception to failed, processing_error, the exception's
\* message.  A job without an engine outcome is neither completed nor failed,
\* and once the outcome is written the state stays.
C16_OutcomeMapping ==
    /\ [](\A i \in JobIds :
            LET job == jobs[i]
                outcome == hist[i].outcome
            IN  /\ outcome = NULL => job.state \notin {COMPLETED, FAILED}
                /\ outcome = "success"
                      => /\ job.state = COMPLETED
                         /\ job.result = "result"
                         /\ job.error = NULL
                         /\ job.error_type = NULL
                /\ outcome = "error"
                      => /\ job.state = FAILED
                         /\ job.error_type = "processing_error"
                         /\ job.error = "engine_error"
                /\ outcome = "timeout"
                      => /\ job.state = FAILED
                         /\ job.error_type = "timeout"
                         /\ job.error = timeout_message(hist[i].deadline)
                         /\ job.options = NoOptions
                               => job.error
                                    = "Processing timeout after 1060 seconds"
                         /\ job.options.timeout_seconds = Some(5)
                               => job.error
                                    = "Processing timeout after 5 seconds"
                /\ outcome = "raise"
                      => /\ job.state = FAILED
                         /\ job.error_type = "processing_error"
                         /\ job.error = "exception_message")
    /\ [][\A i \in JobIds :
             /\ hist'[i].outcome # hist[i].outcome
                   => /\ hist[i].outcome = NULL
                      /\ jobs[i].state = PROCESSING
                      /\ jobs'[i].state \in {COMPLETED, FAILED}
             /\ hist[i].outcome # NULL => jobs'[i].state = jobs[i].state]_vars

\* C16 witness: one job was cut off by a deadline computed from its tier,
\* another failed by an exception of the engine.
C16_Witness ==
    \E a, b \in JobIds :
        /\ hist[a].outcome = "timeout"
        /\ jobs[a].error = "Processing timeout after 530 seconds"
        /\ hist[b].outcome = "raise"
        /\ jobs[b].state = FAILED

AuthEnabled == auth_token \notin {NULL, ""}

\* The orchestrator and every job are as they were.
NoOperation == UNCHANGED <<jobs, queue, workers, running, stopping, hist, uuids>>

\* C20: with a non-empty token configured, a request to process, process/batch,
\* get job, list jobs or cancel job without credentials or with credentials
\* that differ from the token gets 401 and changes neither the registry, the
\* queue nor any job; health answers 200 without credentials; with the token
\* empty or unset the protected endpoints answer requests without
\* credentials, never with 401.
C20_Auth ==
    [][/\ \A credentials \in Credentials :
             AuthEnabled /\ credentials # auth_token
                 => /\ ProcessDocument(credentials, NULL, None)
                          => ret'.code = 401 /\ NoOperation
                    /\ \A n \in 1..MaxHttpJobs :
                          ProcessBatch(credentials, NULL, n, None)
                              => ret'.code = 401 /\ NoOperation
                    /\ ListJobs(credentials)
                          => ret'.code = 401 /\ NoOperation
                    /\ \A job_id \in 1..MaxHttpJobs :
                          /\ GetJobStatus(credentials, job_id)
                                => ret'.code = 401 /\ NoOperation
                          /\ CancelJob(credentials, job_id)
                                => ret'.code = 401 /\ NoOperation
       /\ ret'.code = 401 => AuthEnabled /\ NoOperation
       /\ HealthCheck => ret'.code = 200
       /\ ~AuthEnabled
             => /\ ProcessDocument(NULL, NULL, None) => ret'.code = 200
                /\ \A n \in 1..MaxHttpJobs :
                      ProcessBatch(NULL, NULL, n, None)
                          => ret'.code = 200
                /\ ListJobs(NULL) => ret'.code = 200
                /\ \A job_id \in 1..MaxHttpJobs :
                      /\ GetJobStatus(NULL, job_id)
                            => ret'.code \in {200, 404}
                      /\ CancelJob(NULL, job_id)
                            => ret'.code \in {200, 400, 404}]_vars

\* C20 witness: with a token configured, a cancel request without the token
\* has just been answered 401 while a queued job it could have cancelled is
\* still queued.
C20_Witness ==
    /\ AuthEnabled
    /\ ret.code = 401
    /\ ret.value = <<"cancel_job">>
    /\ \E i \in JobIds : jobs[i].state = QUEUED

\* How many workers are at position pc holding nothing.
Count(pc) == CopiesIn(Worker(pc, 0), workers)

\* C17: while the orchestrator is running no job outcome ends a worker: the
\* worker whose job is marked failed (engine error, timeout or exception) is
\* back waiting for the next id in the same step, so the pool never shrinks
\* and holds no ended worker, and an id in the queue can be taken.
C17_WorkerSurvivesFailure ==
    /\ [](running => Count("done") = 0 /\ num_workers >= max_concurrent_jobs)
    /\ [](running /\ Count("idle") > 0 /\ queue # <<>>
             => ENABLED WorkerDequeue)
    /\ [][\A i \in JobIds :
             running /\ jobs[i].state = PROCESSING /\ jobs'[i].state = FAILED
                 => /\ CopiesIn(Worker("idle", 0), workers')
                          = Count("idle") + 1
                    /\ CopiesIn(Worker("converting", i), workers')
                          = CopiesIn(Worker("converting", i), workers) - 1
                    /\ BagCardinality(workers') = num_workers
                    /\ running']_vars

\* C17 witness: a pool of max_concurrent_jobs workers in which every earlier
\* job has failed, one for each kind of failure, is converting a further job.
C17_Witness ==
    /\ running
    /\ num_workers = max_concurrent_jobs
    /\ \E a, b, c \in JobIds :
          /\ jobs[a].error = "engine_error"
          /\ jobs[b].error_type = "timeout"
          /\ jobs[c].state = PROCESSING
          /\ BagIn(Worker("converting", c), workers)

\* Stop has returned and Start has not been called since (or never was).
Stopped == ~running /\ ~stopping

\* C19: Stop turns the running flag off and returns only when every worker
\* has ended; every Stop that is waiting does return; and while the
\* orchestrator is stopped no worker exists and no job goes from queued to
\* processing.
C19_StopTerminates ==
    /\ [](stopping => ~running)
    /\ [](Stopped => workers = EmptyBag)
    /\ [][stopping /\ ~stopping'
             => /\ \A w \in BagToSet(workers) : w.pc = "done"
                /\ workers' = EmptyBag
                /\ ~running']_vars
    /\ [][Stopped
             => \A i \in JobIds :
                   ~(jobs[i].state = QUEUED /\ jobs'[i].state = PROCESSING)]_vars
    /\ (stopping ~> ~stopping)

\* C19 witness: Stop has returned although, when it was called, one worker
\* was converting and another had been handed an id: the first job is left
\* in processing, the second was finished before Stop returned.
C19_Witness ==
    /\ Stopped
    /\ workers = EmptyBag
    /\ \E a, b \in JobIds :
          /\ jobs[a].state = PROCESSING
          /\ jobs[b].state \in {COMPLETED, FAILED}
          /\ a < b
    /\ queue # <<>>

\* C21: a DELETE /jobs/{id} that passes the token check answers 200, 404 or
\* 400: 200 exactly when the job was registered and queued, and the job is
\* then cancelled; 404 exactly when no job has that id; 400 exactly when the
\* job is registered in another state, and no job is then changed.
C21_CancelRoute ==
    [][\A credentials \in Credentials, job_id \in 1..MaxHttpJobs :
          verify_auth_token(credentials) /\ CancelJob(credentials, job_id)
              => /\ ret'.code \in {200, 400, 404}
                 /\ ret'.code = 200
                       <=> job_id \in JobIds /\ jobs[job_id].state = QUEUED
                 /\ ret'.code = 200
                       => ret'.ok /\ jobs'[job_id].state = CANCELLED
                 /\ ret'.code = 404 <=> job_id \notin JobIds
                 /\ ret'.code = 400
                       <=> job_id \in JobIds /\ jobs[job_id].state # QUEUED
                 /\ ret'.code # 200 => jobs' = jobs /\ queue' = queue]_vars

\* C21 witness: with a token configured, a cancel request carrying it was
\* answered 404 for an id never enqueued, while the registry holds a job that
\* an earlier request cancelled.
C21_Witness ==
    /\ AuthEnabled
    /\ ret.op = "cancel"
    /\ ret.code = 404
    /\ ret.id \notin JobIds
    /\ \E a \in JobIds : jobs[a].state = CANCELLED

\* C27: the progress of every job is an integer from 0 to 100, is 0 while the
\* job is queued, and no step lowers it.
C27_Progress ==
    /\ [](\A i \in JobIds :
             /\ jobs[i].progress \in 0..100
             /\ jobs[i].state = QUEUED => jobs[i].progress = 0)
    /\ [][\A i \in JobIds : jobs'[i].progress >= jobs[i].progress]_vars

\* C27 witness: a queued job at 0, a job being converted at 20, a job left
\* in processing by a stop at 100.
C27_Witness ==
    \E a, b, c \in JobIds :
        /\ jobs[a].state = QUEUED /\ jobs[a].progress = 0
        /\ jobs[b].state = PROCESSING /\ jobs[b].progress = 20
        /\ jobs[c].state = PROCESSING /\ jobs[c].progress = 100

\* The workers that have not ended.
live_workers == num_workers - CopiesIn(Worker("done", 0), workers)

\* C28 (as claimed): after any sequence of Start and Stop calls the number of
\* live workers is at most max_concurrent_jobs, which is between 1 and 3.
C28_WorkerBound ==
    /\ max_concurrent_jobs \in 1..3
    /\ live_workers <= max_concurrent_jobs

\* How often job i is in the intake queue or in the hands of a worker.
Owners(i) ==
    Cardinality({k \in 1..Len(queue) : queue[k] = i})
        + CopiesIn(Worker("got", i), workers)
        + CopiesIn(Worker("converting", i), workers)

\* C29: no job is owned twice: its id is in the queue or with one worker at
\* most once in all; an id that has left the queue never returns to it; a job
\* goes from queued to processing at most once and the engine is called for
\* it at most once.
C29_SingleOwner ==
    /\ [](\A i \in JobIds :
             /\ Owners(i) <= 1
             /\ hist[i].engine_calls <= 1)
    /\ [][\A i \in JobIds :
             /\ i \notin Queued => i \notin {queue'[k] : k \in 1..Len(queue')}
             /\ jobs[i].state = QUEUED /\ jobs'[i].state = PROCESSING
                   => /\ ~hist[i].ever_processing
                      /\ hist[i].engine_calls = 0
                      /\ CopiesIn(Worker("converting", i), workers') = 1]_vars

\* C29 witness: more than three workers are alive, two of them converting
\* different jobs and a third handed yet another id.
C29_Witness ==
    /\ live_workers > 3
    /\ \E a, b, c \in JobIds :
          /\ a # b /\ a # c /\ b # c
          /\ BagIn(Worker("converting", a), workers)
          /\ BagIn(Worker("converting", b), workers)
          /\ BagIn(Worker("got", c), workers)

\* The registered jobs that carry correlation id c.
Siblings(c) == {j \in JobIds : jobs[j].correlation_id = c}

\* C30: when a batch submission returns, every id it returns is a registered
\* job that is still queued; and in every state a job of a batch has all the
\* siblings the request asked for in the registry, so all of them are there
\* before any of them enters processing.
C30_BatchAtomic ==
    /\ [][ret'.op = "batch"
             => \A k \in 1..Len(ret'.value) :
                   /\ ret'.value[k] \in 1..Len(jobs')
                   /\ ret'.value[k] \notin JobIds
                   /\ jobs'[ret'.value[k]].state = QUEUED
                   /\ ~hist'[ret'.value[k]].ever_processing]_vars
    /\ [](\A i \in JobIds :
             jobs[i].correlation_id # NULL
                 => /\ hist[i].batch >= 1
                    /\ Cardinality(Siblings(jobs[i].correlation_id))
                          = hist[i].batch)

\* C30 witness: one sibling of a batch of two is being converted while the
\* other is still queued.
C30_Witness ==
    \E i, j \in JobIds :
        /\ i # j
        /\ jobs[i].correlation_id # NULL
        /\ jobs[j].correlation_id = jobs[i].correlation_id
        /\ jobs[i].state = PROCESSING
        /\ jobs[j].state = QUEUED

\* C22 (as claimed): every response of the application carries an X-Trace-Id
\* header, equal to the X-Trace-Id header of the request when it had one.
C22_TraceEcho ==
    ret.op \in {"process", "batch", "error"}
        => /\ ret.header # NULL
           /\ ret.x_trace_id # NULL => ret.header = ret.x_trace_id

\* The jobs the step just taken has registered.
NewJobs == (1..Len(jobs')) \ JobIds

\* The trace id rule of one step, `absent` being the values of a trace id argument or
\* X-Trace-Id header that count as not supplied.  Every job has a trace id and
\* keeps it; enqueue stores a supplied trace id as it is and generates a
\* fresh one otherwise; a submission over HTTP stores the trace id of its
\* response body in every job it creates, and that is the X-Trace-Id header
\* when one was supplied and a fresh id otherwise.
TraceIdRule(absent) ==
    /\ \A i \in 1..Len(jobs') : jobs'[i].trace_id # NULL
    /\ \A i \in JobIds : jobs'[i].trace_id = jobs[i].trace_id
    /\ \A trace_id \in XTraceIds :
          ret'.op = "enqueue" /\ EnqueueWith(NoOptions, trace_id, NULL)
              => IF trace_id \notin absent
                 THEN jobs'[ret'.id].trace_id = trace_id
                 ELSE jobs'[ret'.id].trace_id \notin Produced
    /\ ret'.op \in {"process", "batch"}
          => /\ NewJobs # {}
             /\ \A i \in NewJobs : jobs'[i].trace_id = ret'.trace_id
             /\ IF ret'.x_trace_id \notin absent
                THEN ret'.trace_id = ret'.x_trace_id
                ELSE ret'.trace_id \notin Produced

\* C23 (as claimed): every job has a non-null trace id that never changes; a
\* supplied trace id (any value but None) is stored as it is, by enqueue and by
\* the submission routes, whose response body repeats it; without one the job
\* gets a freshly generated id.
C23_TraceIds == [][TraceIdRule({NULL})]_vars

\* C23 (amended): the same, a trace id counting as supplied only when it is
\* neither None nor the empty string; an empty trace id or X-Trace-Id header
\* is replaced by a generated id.
C23_TraceIdsNonEmpty == [][TraceIdRule({NULL, ""})]_vars

\* C23 witness: a batch of two submitted with X-Trace-Id t1 has just been
\* answered with trace_id t1, and both siblings carry t1.
C23_Witness ==
    /\ ret.op = "batch"
    /\ ret.x_trace_id = "t1"
    /\ ret.trace_id = "t1"
    /\ Len(ret.value) = 2
    /\ \A k \in 1..2 : jobs[ret.value[k]].trace_id = "t1"

\* C24 (as claimed): a POST /process that carries the token answers 200 with
\* the id of one newly registered queued job, with or without an options
\* object in the body; with one, the job's options are the submitted ones.
C24_ProcessAccepts ==
    [][\A x_trace_id \in XTraceIds, request_options \in RequestOptions :
          ProcessDocument("secret", x_trace_id, request_options)
              => /\ ret'.code = 200
                 /\ Len(jobs') = Len(jobs) + 1
                 /\ ret'.id = Len(jobs')
                 /\ jobs'[ret'.id].state = QUEUED
                 /\ request_options # None
                       => jobs'[ret'.id].options = request_options[1]]_vars

\* How many times the readiness line has been written to stdout.
ready_lines ==
    Cardinality({k \in 1..Len(proc.stdout) : proc.stdout[k] = ReadyLine})

\* C25 (as claimed): the readiness line is on stdout only after startup has
\* succeeded, that is only while the server serves or after it has served; a
\* run whose startup fails never has it; and it is never there twice.
C25_ReadyAfterStartup ==
    /\ ready_lines <= 1
    /\ ready_lines = 1
          => proc.pc \in {"library", "serving", "stopping", "exit0"}

\* C26 (as claimed): once the service has started, no job_ directory of the
\* temp directory that was older than the threshold at startup is left.
C26_JanitorRan ==
    proc.pc = "serving" => \A item \in proc.temp_dir : ~orphaned(item)

\* C31 (as claimed): the deadline a worker gives the engine is
\* options.timeout_seconds whenever that option is set, 0 included, and
\* calculate_timeout(100, tier) otherwise, the tier being the job's
\* processing_tier or, without one, the configured default.
C31_Deadline ==
    \A i \in JobIds :
        hist[i].ever_processing
            => LET options == jobs[i].options
               IN  hist[i].deadline
                     = IF options.timeout_seconds # None
                       THEN options.timeout_seconds[1]
                       ELSE calculate_timeout(
                                100,
                                IF options.processing_tier # NULL
                                THEN options.processing_tier
                                ELSE processing_tier)

\* C32: a step that writes the engine outcome of one job, or that cancels
\* one job, leaves every other job as it was, state, result and error
\* included; so the siblings of one batch end in their own states.
C32_OutcomeFrame ==
    [][\A i \in JobIds :
          \/ hist'[i].outcome # hist[i].outcome
          \/ CalledCancel(i) /\ ret'.ok
          => \A j \in JobIds \ {i} : jobs'[j] = jobs[j]]_vars

\* C32 witness: three siblings of one batch, one completed, one failed by
\* its deadline, one cancelled.
C32_Witness ==
    \E i, j, k \in JobIds :
        /\ jobs[i].correlation_id = "c1"
        /\ jobs[j].correlation_id = "c1"
        /\ jobs[k].correlation_id = "c1"
        /\ jobs[i].state = COMPLETED /\ jobs[i].result # NULL
        /\ jobs[j].state = FAILED /\ jobs[j].error_type = "timeout"
        /\ jobs[k].state = CANCELLED

\* A job directory name as the janitor's contract has it: job_<uuid>.
job_dir_name(name) ==
    name[1] = "job_" /\ \E k \in DOMAIN UuidPool : name[2] = Uuid(k)

\* What the janitor is to delete: a directory with a job directory name
\* whose age is greater than the threshold.
to_delete(item) ==
    item.is_dir /\ job_dir_name(item.name) /\ item.age > ORPHAN_AGE_SECONDS

\* C33 (as claimed): a run of the janitor deletes an entry only if it is a
\* directory named job_<uuid> older than the threshold and leaves every other
\* entry; an operation that raises on one entry does not keep the other
\* entries from being scanned, so every other entry to delete is deleted; the
\* janitor returns, and the count it returns is the number of entries it
\* deleted.
C33_Janitor ==
    [][ret'.op = "cleanup"
          => LET deleted == proc.temp_dir \ proc'.temp_dir
             IN  /\ proc'.temp_dir \subseteq proc.temp_dir
                 /\ \A item \in deleted : to_delete(item)
                 /\ \A item \in proc.temp_dir :
                       to_delete(item) /\ item \notin ret'.fault.items
                           => item \in deleted
                 /\ ret'.ok
                 /\ ret'.value = <<Cardinality(deleted)>>]_vars

\* C34 (as claimed): when stop() returns, no worker is left and the intake
\* queue is empty, so that size() is 0.
C34_StopClearsQueue ==
    [][stopping /\ ~stopping'
          => /\ workers' = EmptyBag
             /\ Len(queue') = 0]_vars

\* C35: with the orchestrator started and never stopped, every engine call
\* ending and the workers scheduled fairly, every enqueued job reaches a
\* terminal state, cancelled if a cancel call succeeded on it and completed
\* or failed if none did, and every tombstone leaves the intake queue.
C35_EveryJobEnds ==
    /\ \A i \in 1..MaxRunJobs :
          (i \in JobIds) ~> (i \in JobIds /\ jobs[i].state \in Terminal)
    /\ \A i \in 1..MaxRunJobs :
          (i \in Queued /\ jobs[i].state = CANCELLED) ~> (i \notin Queued)
    /\ [](\A i \in JobIds :
             /\ hist[i].cancel_ok > 0 => jobs[i].state = CANCELLED
             /\ jobs[i].state \in Terminal /\ hist[i].cancel_ok = 0
                   => jobs[i].state \in {COMPLETED, FAILED})

\* C35 witness: of three jobs, more than there are workers, one was
\* cancelled while queued and its tombstone has been drained, one completed
\* and one failed.
C35_Witness ==
    /\ Len(jobs) = 3
    /\ queue = <<>>
    /\ \E i, j, k \in JobIds :
          /\ jobs[i].state = CANCELLED /\ hist[i].cancel_ok > 0
          /\ jobs[j].state = COMPLETED
          /\ jobs[k].state = FAILED

\* The ids a worker's queue.get() has taken while the worker has not resumed.
Handed == {w.job : w \in {x \in BagToSet(workers) : x.pc = "got"}}

\* What holds of the ids in the intake queue: each is a registered job id,
\* appears once, and belongs to a job that is queued or cancelled.
QueueIdsValid ==
    /\ \A k \in 1..Len(queue) :
          /\ queue[k] \in JobIds
          /\ jobs[queue[k]].state \in {QUEUED, CANCELLED}
    /\ \A k, l \in 1..Len(queue) : queue[k] = queue[l] => k = l

\* C36 (as claimed): every id in the intake queue is a registered job id,
\* appears at most once and belongs to a queued or cancelled job; and every
\* queued job has its id in the intake queue.
C36_QueuedInQueue ==
    /\ QueueIdsValid
    /\ \A i \in JobIds : jobs[i].state = QUEUED => i \in Queued

\* C36 (amended): the same of the ids in the queue; and every queued job has
\* its id either in the intake queue or in the hands of exactly one worker
\* whose queue.get() has taken it and which has not resumed yet, never both;
\* so no queued job is lost, across Stop included.
C36_QueuedInQueueOrHanded ==
    /\ QueueIdsValid
    /\ \A i \in JobIds :
          jobs[i].state = QUEUED
              => /\ i \in Queued \cup Handed
                 /\ ~(i \in Queued /\ i \in Handed)
                 /\ i \in Handed => CopiesIn(Worker("got", i), workers) = 1

\* C36 witness: Stop has been called and has not returned; one queued job is
\* in the hands of a worker that has not resumed, another is still in the
\* intake queue.
C36_Witness ==
    /\ stopping
    /\ \E i, j \in JobIds :
          /\ jobs[i].state = QUEUED /\ i \in Handed /\ i \notin Queued
          /\ jobs[j].state = QUEUED /\ j \in Queued

\* A job whose conversion Stop cut off: it is processing and no worker is
\* converting it.
Interrupted(i) == jobs[i].state = PROCESSING /\ i \notin Converting

\* C37: a worker leaves a conversion without an outcome only when Stop
\* cancels it; the job is then, and from then on, processing with no result and no error, its id is not
\* in the intake queue, no worker holds it, the engine was called for it once
\* and no outcome was written; and it stays exactly so, whatever Start, Stop
\* and the workers do later.
C37_InterruptedStays ==
    /\ [](\A i \in JobIds :
             Interrupted(i)
                 => /\ jobs[i].state = PROCESSING
                    /\ jobs[i].result = NULL
                    /\ jobs[i].error = NULL
                    /\ i \notin Queued
                    /\ i \notin Held
                    /\ hist[i].engine_calls = 1
                    /\ hist[i].outcome = NULL)
    /\ [][\A i \in JobIds :
             /\ Interrupted(i)
                   => /\ jobs'[i] = jobs[i]
                      /\ hist'[i] = hist[i]
                      /\ i \notin Converting'
             /\ i \in Converting /\ i \notin Converting'
                   /\ hist'[i].outcome = NULL
                   => /\ running /\ ~running'
                      /\ jobs'[i].state = PROCESSING
                      /\ jobs'[i].result = NULL
                      /\ jobs'[i].error = NULL]_vars

\* C37 witness: a job was cut off by Stop; after a later Start a worker is
\* converting another job and a third one has been completed.
C37_Witness ==
    /\ running
    /\ \E i, j, k \in JobIds :
          /\ Interrupted(i)
          /\ j \in Converting
          /\ jobs[k].state = COMPLETED

\* C38 (as claimed): while the orchestrator is not running, every queued job
\* has its id in the intake queue and stays queued, the ids keeping their
\* order; and the jobs, all of them enqueued while it was not running, enter
\* processing only after a Start and in the order they were enqueued.
C38_RestartKeepsFifo ==
    /\ [](~running => \A i \in JobIds : jobs[i].state = QUEUED => i \in Queued)
    /\ [][~running
             => /\ \A i \in JobIds :
                      jobs[i].state = QUEUED => jobs'[i].state = QUEUED
                /\ Len(queue') >= Len(queue)
                /\ SubSeq(queue', 1, Len(queue)) = queue]_vars
    /\ [][\A a \in JobIds :
             jobs[a].state = QUEUED /\ jobs'[a].state = PROCESSING
                 => /\ running \/ stopping
                    /\ \A b \in JobIds : b > a => jobs[b].state = QUEUED]_vars

====
